---- MODULE Spec2Model ----
(***************************************************************************)
(* A model of the pascal_io file-state machine (src/src/lib.rs): one file  *)
(* handle of a fixed PascalFile type F, the single file it opens, and the  *)
(* primitive operations reset, rewrite, buffer_variable_assign, put, get,  *)
(* buffer_variable, eof, eoln, write*, break, read_onearg, read_ln,        *)
(* break_in, erstat and close.                                             *)
(*                                                                         *)
(* Conventions.  Option<T> is a sequence of length 0 (None) or 1 (Some).   *)
(* Rust indices are 0-based and kept 0-based in the state; a TLA+ sequence *)
(* is indexed at (index + 1).  A panic ends the run: the handle keeps the   *)
(* state it had when the panic was raised, `last` records that the call    *)
(* panicked, and no further call is made.  I/O failures after a successful *)
(* open are not modelled.                                                  *)
(***************************************************************************)
EXTENDS Integers, Sequences, FiniteSets

\* ------------------------------------------------------------------ bounds
MaxLen == 4
MaxDirect == 1
MaxBinUnits == 2
MaxUnitSize == 3
MaxPut == 2
MaxErr == 2

\* -------------------------------------------------------- program constants
IDEAL_BUFSIZE == 512

\* Character codes of the text alphabet used by the model.
LF == 10
CR == 13
CH == 97

TextBytes == {LF, CR, CH}

VARIABLES
    is_text,        \* F::is_text_file(), fixed for the handle's type
    size_of_t,      \* core::mem::size_of::<F::Unit>(), fixed for the type
    file_state,     \* FileState<F::Unit>, with the read target's offset
    error_state,    \* the handle's last-error code
    disk,           \* bytes of the one file: what a sink wrote, what a source reads
    last,           \* the last call: [op, arg, panic, val]
    before,         \* file_state as the last call found it
    written,        \* units committed by put since the last successful rewrite
    write_pure,     \* disk holds exactly the blobs of `written`
    returned,       \* units returned by read_onearg since the last successful reset
    read_pure       \* every call since that reset was read_onearg or an observer

vars == <<is_text, size_of_t, file_state, error_state, disk, last, before,
          written, write_pure, returned, read_pure>>

\* ------------------------------------------------------------- helpers
None == <<>>
Some(v) == <<v>>

Min(a, b) == IF a < b THEN a ELSE b

RECURSIVE SeqsUpTo(_, _)
SeqsUpTo(S, n) ==
    IF n = 0 THEN {<<>>}
    ELSE LET shorter == SeqsUpTo(S, n - 1)
         IN  shorter \cup {Append(s, x) : s \in shorter, x \in S}

\* The byte sequence <<1, 2, ..., n>>: every byte differs from every other.
Pattern(n) == [i \in 1..n |-> i]

SubSeqFrom(s, off) == SubSeq(s, off + 1, Len(s))

IsPrefix(s, t) == Len(s) <= Len(t) /\ SubSeq(t, 1, Len(s)) = s

\* ------------------------------------------------ FileState constructors
Undefined == [mode |-> "Undefined"]

GenerationMode(wb) == [mode |-> "GenerationMode", write_buffer |-> wb]

LineInspectionMode(lb, rt, flag) ==
    [mode |-> "LineInspectionMode", read_line_buffer |-> lb,
     read_target |-> rt, read_flag_extra_eoln_line |-> flag]

BlockInspectionMode(bb, rt) ==
    [mode |-> "BlockInspectionMode", read_block_buffer |-> bb, read_target |-> rt]

LineUnknownState(initial) == [st |-> "UnknownState", initial_line |-> initial]

AfterReadLine(buf, pos, nomore) ==
    [st |-> "AfterReadLine", line_buffer |-> buf, line_position |-> pos,
     line_no_more |-> nomore]

LineEof == [st |-> "Eof"]

BlockUnknownState == [st |-> "UnknownState"]

AfterReadBlock(buf, avail, pos, cache) ==
    [st |-> "AfterReadBlock", bytes_block_buffer |-> buf,
     bytes_avail_length |-> avail, bytes_position |-> pos, bytes_buffer |-> cache]

BlockEof == [st |-> "Eof"]

\* ------------------------------------------- unit conversion capability
\* A text unit wraps one character code; a binary unit is a record built
\* from its size_of_t bytes.
TextUnit(b) == [chr |-> b]

eoln_unit == TextUnit(LF)

is_eoln_unit(u) == u.chr = LF

RECURSIVE convert_line_string_crlf_to_lf(_)
convert_line_string_crlf_to_lf(s) ==
    IF Len(s) = 0 THEN s
    ELSE IF Len(s) >= 2 /\ s[1] = CR /\ s[2] = LF
         THEN <<LF>> \o convert_line_string_crlf_to_lf(SubSeqFrom(s, 2))
         ELSE <<s[1]>> \o convert_line_string_crlf_to_lf(Tail(s))

convert_line_string_to_units(s) == [i \in 1..Len(s) |-> TextUnit(s[i])]

convert_blob_to_unit(bytes) == [rec |-> bytes]

convert_unit_to_blob(u) == IF is_text THEN <<u.chr>> ELSE u.rec

\* The units a caller stages: every text character, or two binary records
\* whose bytes all differ.
StageUnits ==
    IF is_text THEN {TextUnit(b) : b \in TextBytes}
    ELSE {convert_blob_to_unit([i \in 1..size_of_t |-> base + i]) :
              base \in {0, size_of_t}}

RECURSIVE BlobsOf(_)
BlobsOf(units) ==
    IF Len(units) = 0 THEN <<>>
    ELSE convert_unit_to_blob(Head(units)) \o BlobsOf(Tail(units))

\* ------------------------------------------------------ the read targets
\* ReadLine::read_line on the source at offset rt: the bytes up to and
\* including the next LF, or to the end of the source.
ReadLineLen(rt) ==
    LET ends == {i \in (rt + 1)..Len(disk) : disk[i] = LF}
    IN  IF ends = {} THEN Len(disk) - rt
        ELSE (CHOOSE i \in ends : \A j \in ends : i <= j) - rt

\* Read::read into a buffer of n > 0 bytes at offset rt: any positive number
\* of bytes up to n and up to what is left; 0 only at the end of the source.
ReadLens(rt, n) == 1..Min(n, Len(disk) - rt)

\* ----------------------------------------------------- FileState::refill
DestSizeExact(s) == ((IDEAL_BUFSIZE + s - 1) \div s) * s

DestSize(s) == ((IDEAL_BUFSIZE \div s) + 1) * s

RefillLineKeepsEof(fs) ==
    LET lb  == fs.read_line_buffer
        n   == ReadLineLen(fs.read_target)
        buf == SubSeq(disk, fs.read_target + 1, fs.read_target + n)
        rt  == fs.read_target + n
    IN  IF buf = <<>>
        THEN [fs EXCEPT !.read_line_buffer = LineEof, !.read_target = rt]
        ELSE LET chars   == convert_line_string_to_units(
                                convert_line_string_crlf_to_lf(buf))
                 no_more == ~is_eoln_unit(chars[Len(chars)])
                 line    == IF no_more THEN Append(chars, eoln_unit) ELSE chars
             IN  [fs EXCEPT !.read_line_buffer = AfterReadLine(line, 0, no_more),
                            !.read_target = rt]

RefillLineNoTerminator(fs) ==
    LET lb  == fs.read_line_buffer
        n   == ReadLineLen(fs.read_target)
        buf == SubSeq(disk, fs.read_target + 1, fs.read_target + n)
        rt  == fs.read_target + n
    IN  IF lb.initial_line /\ buf = <<>>
        THEN [fs EXCEPT !.read_line_buffer = LineEof, !.read_target = rt]
        ELSE LET chars   == convert_line_string_to_units(
                                convert_line_string_crlf_to_lf(buf))
                 no_more == IF Len(chars) > 0
                            THEN ~is_eoln_unit(chars[Len(chars)])
                            ELSE TRUE
             IN  [fs EXCEPT !.read_line_buffer = AfterReadLine(chars, 0, no_more),
                            !.read_target = rt]

refill_line(fs) ==
    LET lb  == fs.read_line_buffer
        n   == ReadLineLen(fs.read_target)
        buf == SubSeq(disk, fs.read_target + 1, fs.read_target + n)
        rt  == fs.read_target + n
    IN  IF lb.initial_line /\ buf = <<>>
        THEN [fs EXCEPT !.read_line_buffer = LineEof, !.read_target = rt]
        ELSE LET chars   == convert_line_string_to_units(
                                convert_line_string_crlf_to_lf(buf))
                 no_more == IF Len(chars) > 0
                            THEN ~is_eoln_unit(chars[Len(chars)])
                            ELSE TRUE
                 line    == IF no_more THEN Append(chars, eoln_unit) ELSE chars
             IN  [fs EXCEPT !.read_line_buffer = AfterReadLine(line, 0, no_more),
                            !.read_target = rt]

\* The byte window Box<[u8]>: `len` bytes, of which `head` holds the leading
\* ones; every byte after `head` still is the 0 it was allocated with.
Window(n) == [len |-> n, head |-> <<>>]

At(buf, i) == IF i <= Len(buf.head) THEN buf.head[i] ELSE 0

Max(a, b) == IF a > b THEN a ELSE b

CopyWithinNothing(buf, from, to) == buf

\* The window after copy_within(from..to, 0); 0-based half-open range.
CopyWithin(buf, from, to) ==
    [buf EXCEPT !.head =
        [i \in 1..Max(Len(buf.head), to - from) |->
            IF i <= to - from THEN At(buf, from + i) ELSE At(buf, i)]]

\* The window after a read of k bytes from offset rt into buf[avail..].
ReadInto(buf, avail, rt, k) ==
    [buf EXCEPT !.head =
        [i \in 1..Max(Len(buf.head), avail + k) |->
            IF avail < i /\ i <= avail + k
            THEN disk[rt + (i - avail)] ELSE At(buf, i)]]

RECURSIVE ReadLoopUntilAny(_, _, _, _)
ReadLoopUntilAny(fs, buf, avail, rt) ==
    IF avail >= 1
    THEN {[fs EXCEPT !.read_block_buffer = AfterReadBlock(buf, avail, 0, None),
                     !.read_target = rt]}
    ELSE IF ReadLens(rt, buf.len - avail) = {}
         THEN {[fs EXCEPT !.read_block_buffer = BlockEof, !.read_target = rt]}
         ELSE UNION {ReadLoopUntilAny(fs, ReadInto(buf, avail, rt, k),
                                      avail + k, rt + k) :
                         k \in ReadLens(rt, buf.len - avail)}

\* The `while *bytes_avail_length < size_of_t` loop: every outcome the
\* source's split into reads allows.
RECURSIVE ReadLoop(_, _, _, _)
ReadLoop(fs, buf, avail, rt) ==
    IF avail >= size_of_t
    THEN {[fs EXCEPT !.read_block_buffer = AfterReadBlock(buf, avail, 0, None),
                     !.read_target = rt]}
    ELSE IF ReadLens(rt, buf.len - avail) = {}
         THEN {[fs EXCEPT !.read_block_buffer = BlockEof, !.read_target = rt]}
         ELSE UNION {ReadLoop(fs, ReadInto(buf, avail, rt, k), avail + k, rt + k) :
                         k \in ReadLens(rt, buf.len - avail)}

refill_block(fs) ==
    LET bb0  == fs.read_block_buffer
        dest == DestSize(size_of_t)
        bb   == IF bb0.st = "UnknownState"
                THEN AfterReadBlock(Window(dest), dest,
                                    dest - size_of_t, None)
                ELSE bb0
        bytes_position_end == bb.bytes_position + size_of_t
        nonempty == bytes_position_end < bb.bytes_avail_length
        buf   == IF bytes_position_end > 0 /\ nonempty
                 THEN CopyWithin(bb.bytes_block_buffer, bytes_position_end,
                                 bb.bytes_avail_length)
                 ELSE bb.bytes_block_buffer
        avail == IF bytes_position_end > 0
                 THEN (IF nonempty
                       THEN bb.bytes_avail_length - bytes_position_end ELSE 0)
                 ELSE bb.bytes_avail_length
    IN  ReadLoop(fs, buf, avail, fs.read_target)

\* Every state refill can leave; a refill is only called while reading.
refill(fs) ==
    IF fs.mode = "LineInspectionMode" THEN {refill_line(fs)}
    ELSE refill_block(fs)

\* ------------------------------------------------------------ operations
\* The outcome of a call: the state it leaves, whether it panicked, the
\* value it returned (None for a call that returns nothing) and the bytes
\* it wrote to the sink.
Res(fs, val) == [fs |-> fs, panic |-> FALSE, val |-> val, out |-> <<>>]

Wrote(fs, bytes) == [fs |-> fs, panic |-> FALSE, val |-> None, out |-> bytes]

Panic(fs) == [fs |-> fs, panic |-> TRUE, val |-> None, out |-> <<>>]

IsReading(fs) == fs.mode \in {"LineInspectionMode", "BlockInspectionMode"}

Buffer(fs) ==
    IF fs.mode = "LineInspectionMode" THEN fs.read_line_buffer
    ELSE fs.read_block_buffer

\* The opening capability's answers: success (for a text source, with the
\* terminal flag) or an error code.
OpenOk(term) == [ok |-> TRUE, is_terminal |-> term]

OpenErr(e) == [ok |-> FALSE, e |-> e]

OpenReadOutcomes ==
    {OpenOk(t) : t \in (IF is_text THEN BOOLEAN ELSE {FALSE})}
        \cup {OpenErr(e) : e \in 1..MaxErr}

OpenWriteOutcomes == {OpenOk(FALSE)} \cup {OpenErr(e) : e \in 1..MaxErr}

ResetKeepsStateOnError(fs, err, o) ==
    IF o.ok
    THEN [fs |-> IF is_text
                 THEN (IF o.is_terminal
                       THEN LineInspectionMode(
                                AfterReadLine(<<eoln_unit>>, 0, FALSE), 0, TRUE)
                       ELSE LineInspectionMode(LineUnknownState(TRUE), 0, FALSE))
                 ELSE BlockInspectionMode(BlockUnknownState, 0),
          err |-> 0]
    ELSE [fs |-> fs, err |-> o.e]

reset(fs, err, o) ==
    IF is_text
    THEN IF o.ok
         THEN [fs |-> IF o.is_terminal
                      THEN LineInspectionMode(
                               AfterReadLine(<<eoln_unit>>, 0, FALSE), 0, TRUE)
                      ELSE LineInspectionMode(LineUnknownState(TRUE), 0, FALSE),
               err |-> 0]
         ELSE [fs |-> Undefined, err |-> o.e]
    ELSE IF o.ok
         THEN [fs |-> BlockInspectionMode(BlockUnknownState, 0), err |-> 0]
         ELSE [fs |-> Undefined, err |-> o.e]

rewrite(fs, err, o) ==
    IF o.ok
    THEN [fs |-> GenerationMode(None), err |-> 0]
    ELSE [fs |-> Undefined, err |-> o.e]

buffer_variable_assign(fs, value) ==
    IF fs.mode = "GenerationMode"
    THEN Res([fs EXCEPT !.write_buffer = Some(value)], None)
    ELSE Panic(fs)

PutKeepsStaged(fs) ==
    IF fs.mode = "GenerationMode"
    THEN IF fs.write_buffer = None
         THEN Panic(fs)
         ELSE Wrote(fs, convert_unit_to_blob(fs.write_buffer[1]))
    ELSE Panic(fs)

put(fs) ==
    IF fs.mode = "GenerationMode"
    THEN IF fs.write_buffer = None
         THEN Panic(fs)
         ELSE Wrote([fs EXCEPT !.write_buffer = None],
                    convert_unit_to_blob(fs.write_buffer[1]))
    ELSE Panic(fs)

discard_buffer_variable_value_and_get_write_target(fs) ==
    IF fs.mode = "GenerationMode"
    THEN Res([fs EXCEPT !.write_buffer = None], None)
    ELSE Panic(fs)

\* write, write_ln, write_ln_noargs, write_binary and break: discard the
\* staged unit, then write `bytes` (none for break, which only flushes).
DirectWrite(fs, bytes) ==
    LET d == discard_buffer_variable_value_and_get_write_target(fs)
    IN  IF d.panic THEN d ELSE Wrote(d.fs, bytes)

write(fs, val) == DirectWrite(fs, val)

write_ln(fs, val) == DirectWrite(fs, val \o <<LF>>)

write_ln_noargs(fs) == DirectWrite(fs, <<LF>>)

to_blob(val) == <<val>>

write_binary(fs, val) == DirectWrite(fs, to_blob(val))

break(fs) == DirectWrite(fs, <<>>)

\* What a Display value formats to, and the u8 values written as blobs.
DisplayVals == {<<CH>>}

BlobVals == {CH}

\* The `loop { match ... UnknownState => { refill; continue } }` prefix of
\* buffer_variable, eof and eoln: the states the match finally sees.
Settled(fs) ==
    IF IsReading(fs) /\ Buffer(fs).st = "UnknownState" THEN refill(fs) ELSE {fs}

GetLineAdvancesAfterRefill(fs) ==
    LET lb == fs.read_line_buffer
        f  == IF lb.st = "UnknownState" THEN refill_line(fs) ELSE fs
        b  == f.read_line_buffer
    IN  IF b.st = "Eof" THEN {Panic(f)}
        ELSE IF b.line_position + 1 < Len(b.line_buffer)
             THEN {Res([f EXCEPT !.read_line_buffer.line_position = @ + 1], None)}
             ELSE IF b.line_no_more
                  THEN {Res([f EXCEPT !.read_line_buffer = LineEof], None)}
                  ELSE {Res([f EXCEPT !.read_line_buffer =
                                           LineUnknownState(FALSE)], None)}

GetLineIgnoresNoMore(fs) ==
    LET lb == fs.read_line_buffer
    IN  IF lb.st = "Eof" THEN {Panic(fs)}
        ELSE IF lb.st = "UnknownState" THEN {Res(f, None) : f \in refill(fs)}
        ELSE IF lb.line_position + 1 < Len(lb.line_buffer)
             THEN {Res([fs EXCEPT !.read_line_buffer.line_position = @ + 1], None)}
             ELSE {Res([fs EXCEPT !.read_line_buffer =
                                       LineUnknownState(FALSE)], None)}

GetLineEagerRefill(fs) ==
    LET lb == fs.read_line_buffer
    IN  IF lb.st = "Eof" THEN {Panic(fs)}
        ELSE IF lb.st = "UnknownState" THEN {Res(f, None) : f \in refill(fs)}
        ELSE IF lb.line_position + 1 < Len(lb.line_buffer)
             THEN {Res([fs EXCEPT !.read_line_buffer.line_position = @ + 1], None)}
             ELSE IF lb.line_no_more
                  THEN {Res([fs EXCEPT !.read_line_buffer = LineEof], None)}
                  ELSE {Res(f, None) :
                            f \in refill([fs EXCEPT !.read_line_buffer =
                                                        LineUnknownState(FALSE)])}

get_line(fs) ==
    LET lb == fs.read_line_buffer
    IN  IF lb.st = "Eof" THEN {Panic(fs)}
        ELSE IF lb.st = "UnknownState" THEN {Res(f, None) : f \in refill(fs)}
        ELSE IF lb.line_position + 1 < Len(lb.line_buffer)
             THEN {Res([fs EXCEPT !.read_line_buffer.line_position = @ + 1], None)}
             ELSE IF lb.line_no_more
                  THEN {Res([fs EXCEPT !.read_line_buffer = LineEof], None)}
                  ELSE {Res([fs EXCEPT !.read_line_buffer =
                                            LineUnknownState(FALSE)], None)}

GetBlockKeepsCache(fs) ==
    LET bb == fs.read_block_buffer
    IN  IF bb.st = "Eof" THEN {Panic(fs)}
        ELSE IF bb.st = "UnknownState" THEN {Res(f, None) : f \in refill(fs)}
        ELSE LET bytes_position_end     == bb.bytes_position + size_of_t
                 new_bytes_position_end == bytes_position_end + size_of_t
             IN  IF new_bytes_position_end > bb.bytes_avail_length
                 THEN {Res(f, None) : f \in refill(fs)}
                 ELSE {Res([fs EXCEPT
                              !.read_block_buffer.bytes_position =
                                  bytes_position_end], None)}

get_block(fs) ==
    LET bb == fs.read_block_buffer
    IN  IF bb.st = "Eof" THEN {Panic(fs)}
        ELSE IF bb.st = "UnknownState" THEN {Res(f, None) : f \in refill(fs)}
        ELSE LET bytes_position_end     == bb.bytes_position + size_of_t
                 new_bytes_position_end == bytes_position_end + size_of_t
             IN  IF new_bytes_position_end > bb.bytes_avail_length
                 THEN {Res(f, None) : f \in refill(fs)}
                 ELSE {Res([fs EXCEPT
                              !.read_block_buffer.bytes_buffer = None,
                              !.read_block_buffer.bytes_position =
                                  bytes_position_end], None)}

get(fs) ==
    IF fs.mode = "LineInspectionMode" THEN get_line(fs)
    ELSE IF fs.mode = "BlockInspectionMode" THEN get_block(fs)
    ELSE {Panic(fs)}

\* The window bytes [bytes_position, bytes_position + size_of_t).
UnitBytes(bb) ==
    [i \in 1..size_of_t |-> At(bb.bytes_block_buffer, bb.bytes_position + i)]

BufferVariableSettledConsumes(f) ==
    IF f.mode = "LineInspectionMode"
    THEN LET lb == f.read_line_buffer
         IN  IF lb.st = "Eof" THEN Panic(f)
             ELSE Res(IF lb.line_position + 1 < Len(lb.line_buffer)
                      THEN [f EXCEPT !.read_line_buffer.line_position = @ + 1]
                      ELSE f,
                      Some(lb.line_buffer[lb.line_position + 1]))
    ELSE IF f.mode = "BlockInspectionMode"
    THEN LET bb == f.read_block_buffer
         IN  IF bb.st = "Eof" THEN Panic(f)
             ELSE Res(f, Some(convert_blob_to_unit(UnitBytes(bb))))
    ELSE Panic(f)

buffer_variable_settled(f) ==
    IF f.mode = "LineInspectionMode"
    THEN LET lb == f.read_line_buffer
         IN  IF lb.st = "Eof" THEN Panic(f)
             ELSE Res(f, Some(lb.line_buffer[lb.line_position + 1]))
    ELSE IF f.mode = "BlockInspectionMode"
    THEN LET bb == f.read_block_buffer
         IN  IF bb.st = "Eof" THEN Panic(f)
             ELSE IF bb.bytes_buffer = None
                  THEN LET v == convert_blob_to_unit(UnitBytes(bb))
                       IN  Res([f EXCEPT !.read_block_buffer.bytes_buffer =
                                             Some(v)], Some(v))
                  ELSE Res(f, Some(bb.bytes_buffer[1]))
    ELSE Panic(f)

BufferVariableChecksFirst(fs) ==
    IF IsReading(fs) /\ Buffer(fs).st = "UnknownState"
          /\ \E f \in refill(fs) : Buffer(f).st = "Eof"
    THEN {Panic(fs)}
    ELSE {buffer_variable_settled(f) : f \in Settled(fs)}

buffer_variable(fs) == {buffer_variable_settled(f) : f \in Settled(fs)}

EofSettledPanicsWhenWriting(f) ==
    IF IsReading(f) THEN Res(f, Some(Buffer(f).st = "Eof"))
    ELSE Panic(f)

eof_settled(f) ==
    IF IsReading(f) THEN Res(f, Some(Buffer(f).st = "Eof"))
    ELSE IF f.mode = "GenerationMode" THEN Res(f, Some(TRUE))
    ELSE Panic(f)

eof(fs) == {eof_settled(f) : f \in Settled(fs)}

eoln_settled(f) ==
    IF f.mode = "LineInspectionMode"
    THEN LET lb == f.read_line_buffer
         IN  IF lb.st = "Eof" THEN Panic(f)
             ELSE Res(f, Some(is_eoln_unit(lb.line_buffer[lb.line_position + 1])))
    ELSE Panic(f)

\* eoln matches BlockInspectionMode before any refill and panics.
eoln(fs) ==
    IF fs.mode = "LineInspectionMode"
    THEN {eoln_settled(f) : f \in Settled(fs)}
    ELSE {Panic(fs)}

\* buffer_variable, then get; a panic of either ends the call.
read_onearg(fs) ==
    UNION {IF b.panic THEN {b}
           ELSE {IF g.panic THEN g ELSE Res(g.fs, b.val) : g \in get(b.fs)} :
               b \in buffer_variable(fs)}

RECURSIVE ReadLnStopsAtTerminator(_)
ReadLnStopsAtTerminator(fs) ==
    UNION {IF e.panic THEN {e}
           ELSE IF e.val = Some(TRUE) THEN {Res(e.fs, None)}
           ELSE UNION {IF g.panic THEN {g} ELSE ReadLnStopsAtTerminator(g.fs) :
                           g \in get(e.fs)} :
               e \in eoln(fs)}

\* while !eoln(file) { get(file) }; get(file)
RECURSIVE read_ln(_)
read_ln(fs) ==
    UNION {IF e.panic THEN {e}
           ELSE IF e.val = Some(TRUE) THEN get(e.fs)
           ELSE UNION {IF g.panic THEN {g} ELSE read_ln(g.fs) : g \in get(e.fs)} :
               e \in eoln(fs)}

BreakInIgnoresNoMore(fs) ==
    IF fs.mode = "LineInspectionMode"
    THEN LET lb == fs.read_line_buffer
         IN  IF lb.st = "AfterReadLine"
             THEN IF fs.read_flag_extra_eoln_line
                  THEN Res([fs EXCEPT !.read_line_buffer =
                               AfterReadLine(<<eoln_unit>>, 0, FALSE)], None)
                  ELSE Res([fs EXCEPT !.read_line_buffer =
                               LineUnknownState(FALSE)], None)
             ELSE Res(fs, None)
    ELSE Panic(fs)

BreakInReopensEof(fs) ==
    IF fs.mode = "LineInspectionMode"
    THEN LET lb == fs.read_line_buffer
         IN  IF lb.st = "AfterReadLine"
             THEN IF lb.line_no_more
                  THEN Res([fs EXCEPT !.read_line_buffer = LineEof], None)
                  ELSE IF fs.read_flag_extra_eoln_line
                       THEN Res([fs EXCEPT !.read_line_buffer =
                                    AfterReadLine(<<eoln_unit>>, 0, FALSE)], None)
                       ELSE Res([fs EXCEPT !.read_line_buffer =
                                    LineUnknownState(FALSE)], None)
             ELSE Res([fs EXCEPT !.read_line_buffer = LineUnknownState(FALSE)],
                      None)
    ELSE Panic(fs)

break_in(fs) ==
    IF fs.mode = "LineInspectionMode"
    THEN LET lb == fs.read_line_buffer
         IN  IF lb.st = "AfterReadLine"
             THEN IF lb.line_no_more
                  THEN Res([fs EXCEPT !.read_line_buffer = LineEof], None)
                  ELSE IF fs.read_flag_extra_eoln_line
                       THEN Res([fs EXCEPT !.read_line_buffer =
                                    AfterReadLine(<<eoln_unit>>, 0, FALSE)], None)
                       ELSE Res([fs EXCEPT !.read_line_buffer =
                                    LineUnknownState(FALSE)], None)
             ELSE Res(fs, None)
    ELSE Panic(fs)

erstat(err) == err

close(fs) == Undefined

\* ------------------------------------------------------------ the machine
Init ==
    /\ is_text \in BOOLEAN
    /\ size_of_t \in (IF is_text THEN {1} ELSE 1..MaxUnitSize)
    /\ file_state = Undefined
    /\ error_state = 0
    /\ disk \in (IF is_text THEN SeqsUpTo(TextBytes, MaxLen)
                 ELSE {Pattern(n) : n \in 0..((MaxBinUnits + 1) * size_of_t - 1)})
    /\ last = [op |-> "new", arg |-> None, panic |-> FALSE, val |-> None]
    /\ before = Undefined
    /\ written = <<>>
    /\ write_pure = FALSE
    /\ returned = <<>>
    /\ read_pure = FALSE

Called(name, arg, r) ==
    /\ ~last.panic
    /\ file_state' = r.fs
    /\ before' = file_state
    /\ last' = [op |-> name, arg |-> arg, panic |-> r.panic, val |-> r.val]
    /\ UNCHANGED <<is_text, size_of_t, error_state>>

\* A call that writes: the sink receives r.out.  The model stops writing
\* when the file would outgrow its bound.
Sunk(r, cap) ==
    /\ Len(disk) + Len(r.out) <= cap
    /\ disk' = disk \o r.out
    /\ UNCHANGED <<returned, read_pure>>

PutCap == MaxPut * size_of_t

\* A call that reads: an observer keeps the record of what read_onearg
\* returned, any other call ends it.
Observed == UNCHANGED <<disk, written, write_pure, returned, read_pure>>

Advanced ==
    /\ returned' = <<>>
    /\ read_pure' = FALSE
    /\ UNCHANGED <<disk, written, write_pure>>

Opened(name, o, r) ==
    /\ ~last.panic
    /\ file_state' = r.fs
    /\ before' = file_state
    /\ error_state' = r.err
    /\ last' = [op |-> name, arg |-> Some(o), panic |-> FALSE, val |-> None]
    /\ returned' = <<>>
    /\ UNCHANGED <<is_text, size_of_t>>

CallReset ==
    \E o \in OpenReadOutcomes :
        /\ Opened("reset", o, reset(file_state, error_state, o))
        /\ read_pure' = o.ok
        /\ UNCHANGED <<disk, written, write_pure>>

\* A successful open_file_for_write starts the file anew (File::create).
CallRewrite ==
    \E o \in OpenWriteOutcomes :
        /\ Opened("rewrite", o, rewrite(file_state, error_state, o))
        /\ read_pure' = FALSE
        /\ IF o.ok
           THEN disk' = <<>> /\ written' = <<>> /\ write_pure' = TRUE
           ELSE UNCHANGED <<disk, written, write_pure>>

CallBufferVariableAssign ==
    \E value \in StageUnits :
        LET r == buffer_variable_assign(file_state, value)
        IN  /\ Called("buffer_variable_assign",
                      IF r.panic THEN None ELSE Some(value), r)
            /\ Sunk(r, PutCap)
            /\ UNCHANGED <<written, write_pure>>

CallPut ==
    LET r == put(file_state)
    IN  /\ Called("put", None, r)
        /\ Sunk(r, PutCap)
        /\ written' = IF ~r.panic /\ write_pure
                      THEN Append(written, file_state.write_buffer[1])
                      ELSE written
        /\ UNCHANGED write_pure

Direct(name, r) ==
    /\ Called(name, None, r)
    /\ r.panic \/ Len(disk) < MaxDirect
    /\ Sunk(r, MaxLen)
    /\ written' = IF r.panic THEN written ELSE <<>>
    /\ write_pure' = IF r.panic THEN write_pure ELSE FALSE

CallWrite == \E val \in DisplayVals : Direct("write", write(file_state, val))

CallWriteLn == \E val \in DisplayVals : Direct("write_ln", write_ln(file_state, val))

CallWriteLnNoargs == Direct("write_ln_noargs", write_ln_noargs(file_state))

CallWriteBinary ==
    \E val \in BlobVals : Direct("write_binary", write_binary(file_state, val))

CallBreak ==
    LET r == break(file_state)
    IN  /\ Called("break", None, r)
        /\ Sunk(r, PutCap)
        /\ UNCHANGED <<written, write_pure>>

CallGet ==
    \E r \in get(file_state) : Called("get", None, r) /\ Advanced

CallBufferVariable ==
    \E r \in buffer_variable(file_state) :
        Called("buffer_variable", None, r) /\ Observed

CallEof == \E r \in eof(file_state) : Called("eof", None, r) /\ Observed

CallEoln == \E r \in eoln(file_state) : Called("eoln", None, r) /\ Observed

CallReadOnearg ==
    \E r \in read_onearg(file_state) :
        /\ Called("read_onearg", None, r)
        /\ returned' = IF ~r.panic /\ read_pure
                       THEN Append(returned, r.val[1]) ELSE returned
        /\ UNCHANGED <<disk, written, write_pure, read_pure>>

CallReadLn == \E r \in read_ln(file_state) : Called("read_ln", None, r) /\ Advanced

CallBreakIn == Called("break_in", None, break_in(file_state)) /\ Advanced

CallErstat ==
    /\ Called("erstat", None, Res(file_state, Some(erstat(error_state))))
    /\ Observed

CallClose ==
    /\ Called("close", None, Res(close(file_state), None))
    /\ Advanced

Next ==
    \/ CallReset
    \/ CallRewrite
    \/ CallBufferVariableAssign
    \/ CallPut
    \/ CallWrite
    \/ CallWriteLn
    \/ CallWriteLnNoargs
    \/ CallWriteBinary
    \/ CallBreak
    \/ CallGet
    \/ CallBufferVariable
    \/ CallEof
    \/ CallEoln
    \/ CallReadOnearg
    \/ CallReadLn
    \/ CallBreakIn
    \/ CallErstat
    \/ CallClose

Spec == Init /\ [][Next]_vars

\* ---------------------------------------------------------------- claims
Mode == file_state.mode

IsLine == Mode = "LineInspectionMode"

IsBlock == Mode = "BlockInspectionMode"

IsGen == Mode = "GenerationMode"

LastOpen == last.arg[1]

\* The state a successful open-for-read leaves.
FreshTextRead == LineInspectionMode(LineUnknownState(TRUE), 0, FALSE)

FreshTerminalRead ==
    LineInspectionMode(AfterReadLine(<<eoln_unit>>, 0, FALSE), 0, TRUE)

FreshBlockRead == BlockInspectionMode(BlockUnknownState, 0)

\* C1: after reset or rewrite, from any prior state: on error code e the
\* handle is Undefined with last-error e; on success it is exactly the fresh
\* state of its mode (nothing staged, nothing buffered, target at its start)
\* with last-error 0.
C1_OpenOutcome ==
    /\ last.op = "reset" =>
          IF LastOpen.ok
          THEN /\ error_state = 0
               /\ file_state = (IF ~is_text THEN FreshBlockRead
                                ELSE IF LastOpen.is_terminal THEN FreshTerminalRead
                                ELSE FreshTextRead)
          ELSE file_state = Undefined /\ error_state = LastOpen.e
    /\ last.op = "rewrite" =>
          IF LastOpen.ok
          THEN error_state = 0 /\ file_state = GenerationMode(None)
          ELSE file_state = Undefined /\ error_state = LastOpen.e

\* A failed reset of a handle that had written units before.
C1_Witness ==
    /\ last.op = "reset"
    /\ ~LastOpen.ok
    /\ LastOpen.e = MaxErr
    /\ error_state = MaxErr
    /\ file_state = Undefined
    /\ Len(written) > 0

FreshlyOpenedEmpty ==
    /\ last.op = "reset"
    /\ LastOpen.ok
    /\ ~LastOpen.is_terminal
    /\ disk = <<>>

\* C2: on an empty input freshly opened for read, the first call, if it is
\* eof, returns true, and if it is get or buffer_variable, panics.
C2_EmptyInputFatal ==
    [][FreshlyOpenedEmpty =>
          /\ last'.op = "eof" => ~last'.panic /\ last'.val = Some(TRUE)
          /\ last'.op \in {"get", "buffer_variable"} => last'.panic]_vars

Loaded == IsBlock /\ file_state.read_block_buffer.st = "AfterReadBlock"

WindowLen == file_state.read_block_buffer.bytes_block_buffer.len

LineBuf == file_state.read_line_buffer

BlockBuf == file_state.read_block_buffer

\* The units of a text after CRLF -> LF normalization.
NormUnits(bytes) ==
    convert_line_string_to_units(convert_line_string_crlf_to_lf(bytes))

\* Every outcome of eof (of eoln) on the current state returns b.
EofReturns(b) == \A r \in eof(file_state) : ~r.panic /\ r.val = Some(b)

EolnReturns(b) == \A r \in eoln(file_state) : ~r.panic /\ r.val = Some(b)

\* C3: binary round trip.  While the file holds exactly the blobs of the N
\* units committed by stage + put and it is read back with read_onearg, the
\* units returned are a prefix of the units written, and eof is true exactly
\* when all N have been returned.
C3_BinaryRoundTrip ==
    (~is_text /\ write_pure /\ read_pure /\ IsBlock) =>
        /\ disk = BlobsOf(written)
        /\ IsPrefix(returned, written)
        /\ EofReturns(returned = written)

\* Two different 2-byte units written, read back, end of file reached.
C3_Witness ==
    /\ ~is_text /\ size_of_t = 2
    /\ write_pure /\ read_pure /\ IsBlock
    /\ BlockBuf.st = "Eof"
    /\ last.op = "read_onearg"
    /\ Len(written) = 2
    /\ written[1] # written[2]
    /\ returned = written

TextRoundTrip ==
    is_text /\ write_pure /\ read_pure /\ IsLine
        /\ ~file_state.read_flag_extra_eoln_line

\* C4 as stated: reading back a text written by stage + put yields, at end of
\* file, the written text with CRLF normalized to LF.
C4_SameText ==
    (TextRoundTrip /\ LineBuf.st = "Eof") => returned = NormUnits(BlobsOf(written))

C4_Expected ==
    NormUnits(BlobsOf(written))
        \o (IF written = <<>> THEN <<>> ELSE <<eoln_unit>>)

\* C4 amended: reading back yields the written text with CRLF normalized to
\* LF, followed by one synthesized terminator when the text is not empty;
\* eof is true exactly when all of that has been returned.
C4_TextPlusTerminator ==
    TextRoundTrip =>
        /\ disk = BlobsOf(written)
        /\ IsPrefix(returned, C4_Expected)
        /\ EofReturns(returned = C4_Expected)

\* CR LF written as two units comes back as LF and the synthesized LF.
C4_Witness ==
    /\ TextRoundTrip
    /\ LineBuf.st = "Eof"
    /\ last.op = "read_onearg"
    /\ written = <<TextUnit(CR), TextUnit(LF)>>
    /\ returned = <<eoln_unit, eoln_unit>>

\* The i-th complete unit of the source: bytes [(i-1)S, iS).
UnitAt(i) ==
    convert_blob_to_unit(SubSeq(disk, (i - 1) * size_of_t + 1, i * size_of_t))

\* C5: block mode, for every split of the source into reads.  The window's
\* unconsumed bytes [cursor, avail) are the source bytes just before the
\* source's offset, in order; the units returned by read_onearg are the
\* source's slices in order; eof is true exactly after floor(L / S) units.
C5_BlockDelivery ==
    IsBlock =>
        /\ Loaded =>
              LET n == BlockBuf.bytes_avail_length - BlockBuf.bytes_position
              IN  /\ n >= size_of_t
                  /\ n <= file_state.read_target
                  /\ \A i \in 1..n :
                        At(BlockBuf.bytes_block_buffer,
                           BlockBuf.bytes_position + i)
                            = disk[file_state.read_target - n + i]
                  /\ read_pure =>
                        file_state.read_target - n = Len(returned) * size_of_t
        /\ read_pure =>
              /\ Len(returned) <= Len(disk) \div size_of_t
              /\ \A i \in 1..Len(returned) : returned[i] = UnitAt(i)
              /\ EofReturns(Len(returned) = Len(disk) \div size_of_t)

\* 8 bytes, 3-byte units: two units, then Exhausted with 2 bytes left over.
C5_Witness ==
    /\ IsBlock /\ read_pure
    /\ size_of_t = 3
    /\ disk = Pattern(8)
    /\ BlockBuf.st = "Eof"
    /\ file_state.read_target = 8
    /\ returned = <<UnitAt(1), UnitAt(2)>>

Observers == {"eof", "eoln", "buffer_variable"}

\* The handle state without the block buffer's cached unit.
Observable(fs) ==
    IF fs.mode = "BlockInspectionMode" /\ fs.read_block_buffer.st = "AfterReadBlock"
    THEN [fs EXCEPT !.read_block_buffer.bytes_buffer = None]
    ELSE fs

\* C6: an observer (eof, eoln, buffer_variable) called right after an
\* observer that returned, on a reading handle, leaves mode, buffer state,
\* position, window, available bytes and error code as they were; the same
\* observer called again returns the same value and changes nothing at all.
C6_RepeatedObservation ==
    [][(/\ last.op \in Observers
        /\ ~last.panic
        /\ IsReading(file_state)
        /\ last'.op \in Observers)
          => /\ Observable(file_state') = Observable(file_state)
             /\ error_state' = error_state
             /\ last'.op = last.op => last' = last /\ file_state' = file_state]_vars

\* A peek past the first unit whose value is the cached unit.
C6_Witness ==
    /\ Loaded
    /\ last.op = "buffer_variable"
    /\ BlockBuf.bytes_position > 0
    /\ BlockBuf.bytes_buffer = last.val

C7_Expected == NormUnits(disk) \o <<eoln_unit>>

\* C7: a non-empty text that does not end with a terminator, read with
\* read_onearg: the units returned are the text's units and then one
\* synthesized terminator; eof is false until that terminator is consumed and
\* true from then on; at that terminator eoln is true.
C7_UnterminatedText ==
    (/\ is_text /\ IsLine /\ read_pure
     /\ ~file_state.read_flag_extra_eoln_line
     /\ Len(disk) > 0 /\ disk[Len(disk)] # LF)
        => /\ IsPrefix(returned, C7_Expected)
           /\ EofReturns(returned = C7_Expected)
           /\ Len(returned) = Len(C7_Expected) - 1 =>
                 /\ EolnReturns(TRUE)
                 /\ LineBuf.st = "AfterReadLine"
                 /\ LineBuf.line_no_more
                 /\ LineBuf.line_position + 1 = Len(LineBuf.line_buffer)

\* "aa\na" read to its end: a, a, LF, a, LF.
C7_Witness ==
    /\ is_text /\ IsLine /\ read_pure
    /\ ~file_state.read_flag_extra_eoln_line
    /\ disk = <<CH, CH, LF, CH>>
    /\ LineBuf.st = "Eof"
    /\ returned = C7_Expected

WriterOps ==
    {"buffer_variable_assign", "put", "write", "write_ln", "write_ln_noargs",
     "write_binary", "break"}

\* C8: buffer_variable, get and eoln panic on a Writing or Closed handle; eof
\* panics on a Closed handle and returns true on a Writing one; stage, commit,
\* the direct writes and flush panic on a handle that is not Writing.
C8_WrongModeIsFatal ==
    [][LET m  == file_state.mode
           op == last'.op
       IN  /\ (op \in {"buffer_variable", "get", "eoln"}
                 /\ m \in {"GenerationMode", "Undefined"}) => last'.panic
           /\ (op = "eof" /\ m = "Undefined") => last'.panic
           /\ (op = "eof" /\ m = "GenerationMode")
                 => ~last'.panic /\ last'.val = Some(TRUE)
           /\ (op \in WriterOps /\ m # "GenerationMode") => last'.panic]_vars

\* get panicked on a Writing handle.
C8_Witness ==
    /\ IsGen
    /\ last.op = "get"
    /\ last.panic

\* The handle after the first advance past the seeded terminator.
AfterSeedUnknown == LineInspectionMode(LineUnknownState(FALSE), 0, TRUE)

\* C9: a successful interactive reset leaves Line-Reading, Loaded with the
\* single terminator at position 0, flag set; there eoln is true, eof false,
\* and no call reads the source: the only other state reached is Unknown
\* with the source still at offset 0, and the line is read by the peek, eof,
\* eoln or advance that follows.
C9_InteractiveSeed ==
    [][/\ (last'.op = "reset" /\ last'.arg[1].ok /\ last'.arg[1].is_terminal)
             => file_state' = FreshTerminalRead
       /\ (/\ file_state = FreshTerminalRead
           /\ file_state'.mode = "LineInspectionMode"
           /\ file_state'.read_flag_extra_eoln_line)
             => /\ file_state' \in {FreshTerminalRead, AfterSeedUnknown}
                /\ last'.op = "eoln" =>
                      last'.val = Some(TRUE) /\ file_state' = file_state
                /\ last'.op = "eof" =>
                      last'.val = Some(FALSE) /\ file_state' = file_state
                /\ last'.op = "buffer_variable" =>
                      last'.val = Some(eoln_unit) /\ file_state' = file_state
                /\ last'.op \in {"get", "read_onearg", "read_ln"} =>
                      file_state' = AfterSeedUnknown
       /\ (/\ file_state = AfterSeedUnknown
           /\ last'.op \in {"buffer_variable", "eof", "eoln", "get"})
             => /\ file_state'.read_line_buffer.st = "AfterReadLine"
                /\ file_state'.read_target = ReadLineLen(0)]_vars

\* The seeded terminator was advanced past and the source is still unread.
C9_Witness ==
    /\ file_state = AfterSeedUnknown
    /\ last.op = "get"
    /\ Len(disk) > 0

DirectWrites == {"write", "write_ln", "write_ln_noargs", "write_binary"}

\* C11: on a Writing handle the staged slot is empty right after a
\* successful rewrite, after every put and after every direct write; stage
\* replaces the slot with its argument; put with a staged unit appends
\* exactly that unit's bytes to the sink and empties the slot; put with an
\* empty slot panics and writes nothing, so a put right after a direct write
\* panics and the sink keeps what the direct write left.
C11_StagedUnitProtocol ==
    [][/\ (last'.op = "rewrite" /\ last'.arg[1].ok)
             => file_state'.write_buffer = None
       /\ (IsGen /\ last'.op \in DirectWrites \cup {"put"} /\ ~last'.panic)
             => file_state' = GenerationMode(None)
       /\ (IsGen /\ last'.op = "buffer_variable_assign")
             => /\ ~last'.panic
                /\ last'.arg \in {Some(u) : u \in StageUnits}
                /\ file_state' = GenerationMode(last'.arg)
                /\ disk' = disk
       /\ (IsGen /\ last'.op = "put")
             => IF file_state.write_buffer = None
                THEN last'.panic /\ disk' = disk /\ file_state' = file_state
                ELSE /\ ~last'.panic
                     /\ disk' = disk \o convert_unit_to_blob(
                                            file_state.write_buffer[1])
       /\ (IsGen /\ last.op \in DirectWrites /\ ~last.panic /\ last'.op = "put")
             => last'.panic /\ disk' = disk]_vars

\* A put that panicked on a Writing handle whose sink holds only what a
\* direct write left there.
C11_Witness ==
    /\ IsGen
    /\ last.op = "put"
    /\ last.panic
    /\ file_state.write_buffer = None
    /\ Len(disk) > 0
    /\ ~write_pure

LineLoaded == IsLine /\ LineBuf.st = "AfterReadLine"

\* C12: whenever the line buffer is AfterReadLine (from refill, from the
\* interactive seed of reset, or from the re-seed of break_in) its unit
\* sequence is not empty, line_position is a valid index of it, and its last
\* unit is a terminator unit.
C12_LineBufferInvariant ==
    LineLoaded =>
        /\ Len(LineBuf.line_buffer) > 0
        /\ LineBuf.line_position >= 0
        /\ LineBuf.line_position < Len(LineBuf.line_buffer)
        /\ is_eoln_unit(LineBuf.line_buffer[Len(LineBuf.line_buffer)])

\* The lookahead on the terminator that refill appended to the unterminated
\* last line "aa".
C12_Witness ==
    /\ LineLoaded
    /\ ~file_state.read_flag_extra_eoln_line
    /\ disk = <<CH, LF, CH, CH>>
    /\ LineBuf.line_buffer = <<TextUnit(CH), TextUnit(CH), eoln_unit>>
    /\ LineBuf.line_no_more
    /\ LineBuf.line_position = 2

\* C13: get on a Line-Reading handle whose buffer is AfterReadLine: before
\* the last index it adds one to line_position and changes nothing else; at
\* the last index the buffer becomes Eof when line_no_more is set and
\* UnknownState (initial_line false) otherwise, with the read target and the
\* flag untouched.  No call that stays in Line-Reading moves the read target
\* unless it found the buffer UnknownState; buffer_variable, eof, eoln and
\* get on that UnknownState read exactly the next line.
C13_LineAdvance ==
    [][/\ (LineLoaded /\ last'.op = "get")
             => /\ ~last'.panic
                /\ file_state' =
                      (IF LineBuf.line_position + 1 < Len(LineBuf.line_buffer)
                       THEN [file_state EXCEPT
                                !.read_line_buffer.line_position = @ + 1]
                       ELSE IF LineBuf.line_no_more
                       THEN [file_state EXCEPT !.read_line_buffer = LineEof]
                       ELSE [file_state EXCEPT !.read_line_buffer =
                                                   LineUnknownState(FALSE)])
       /\ (/\ IsLine /\ last'.op # "reset"
           /\ file_state'.mode = "LineInspectionMode"
           /\ file_state'.read_target # file_state.read_target)
             => LineBuf.st = "UnknownState"
       /\ (/\ IsLine /\ LineBuf = LineUnknownState(FALSE)
           /\ last'.op \in {"buffer_variable", "eof", "eoln", "get"})
             => /\ file_state'.read_line_buffer.st = "AfterReadLine"
                /\ file_state'.read_target =
                      file_state.read_target + ReadLineLen(file_state.read_target)]_vars

\* An advance past the terminator of the first line of "a\naa" left the
\* buffer UnknownState with the second line still unread.
C13_Witness ==
    /\ IsLine
    /\ ~file_state.read_flag_extra_eoln_line
    /\ last.op = "get"
    /\ disk = <<CH, LF, CH, CH>>
    /\ LineBuf = LineUnknownState(FALSE)
    /\ file_state.read_target = 2

Exhausted == IsReading(file_state) /\ Buffer(file_state).st = "Eof"

Openers == {"close", "reset", "rewrite"}

\* What C14 says of every call but break_in on a handle whose buffer is Eof:
\* the state is kept by every call but close, reset and rewrite, which all
\* change it; eof returns true; buffer_variable, get, eoln (and read_onearg,
\* read_ln, which start with one of them) panic.
ExhaustedIsStable ==
    /\ last'.op \notin Openers => file_state' = file_state
    /\ last'.op \in Openers => file_state' # file_state
    /\ last'.op = "eof" => ~last'.panic /\ last'.val = Some(TRUE)
    /\ last'.op \in {"buffer_variable", "get", "eoln", "read_onearg", "read_ln"}
          => last'.panic

\* C14 as stated: on a Line-Reading or Block-Reading handle whose buffer is
\* Eof, break_in is a call that returns and changes nothing.
C14_BreakInIsNoOp ==
    [][Exhausted =>
          /\ ExhaustedIsStable
          /\ last'.op = "break_in" => ~last'.panic]_vars

\* C14 amended: once the buffer is Eof the handle keeps its state under every
\* call but close, reset and rewrite; eof returns true; peek, advance and
\* eoln panic; break_in returns without effect on a Line-Reading handle and
\* panics on a Block-Reading one.
C14_ExhaustedStays ==
    [][Exhausted =>
          /\ ExhaustedIsStable
          /\ last'.op = "break_in" => (last'.panic <=> IsBlock)]_vars

\* eof answered true on a non-empty text whose buffer was Eof already (on a
\* non-empty text only get and break_in lead to Eof).
C14_Witness ==
    /\ Exhausted /\ IsLine
    /\ Len(disk) > 0
    /\ last.op = "eof"
    /\ last.val = Some(TRUE)

\* C15: break_in panics unless the handle is Line-Reading.  On a Line-Reading
\* handle it never panics and never changes the flag or the read target; with
\* the buffer AfterReadLine, at any position: the buffer becomes Eof when
\* line_no_more is set, else the single terminator at position 0 with
\* line_no_more false when the flag is set (eoln is true there and reads
\* nothing), else UnknownState with initial_line false.
C15_BreakIn ==
    [][last'.op = "break_in" =>
          IF ~IsLine THEN last'.panic /\ file_state' = file_state
          ELSE /\ ~last'.panic
               /\ file_state'.mode = "LineInspectionMode"
               /\ file_state'.read_flag_extra_eoln_line
                     = file_state.read_flag_extra_eoln_line
               /\ file_state'.read_target = file_state.read_target
               /\ LineBuf.st = "AfterReadLine" =>
                     file_state'.read_line_buffer =
                        (IF LineBuf.line_no_more THEN LineEof
                         ELSE IF file_state.read_flag_extra_eoln_line
                         THEN AfterReadLine(<<eoln_unit>>, 0, FALSE)
                         ELSE LineUnknownState(FALSE))
               /\ file_state'.read_line_buffer
                     = AfterReadLine(<<eoln_unit>>, 0, FALSE) =>
                        \A r \in eoln(file_state') :
                            ~r.panic /\ r.val = Some(TRUE) /\ r.fs = file_state']_vars

\* An interactive handle re-seeded by break_in after a line was read.
C15_Witness ==
    /\ IsLine
    /\ last.op = "break_in"
    /\ file_state.read_flag_extra_eoln_line
    /\ file_state.read_target > 0
    /\ file_state.read_target < Len(disk)
    /\ LineBuf = AfterReadLine(<<eoln_unit>>, 0, FALSE)

\* C16 as stated: a call that panics leaves the handle's state and its
\* last-error code exactly as the call found them.
C16_PanicKeepsState ==
    [][last'.panic => file_state' = file_state /\ error_state' = error_state]_vars

\* The calls that refill an UnknownState buffer before they look at it.
LazyFailure ==
    /\ IsReading(file_state)
    /\ Buffer(file_state).st = "UnknownState"
    /\ \/ last'.op \in {"buffer_variable", "read_onearg"}
       \/ last'.op \in {"eoln", "read_ln"} /\ IsLine

\* C16 amended: a call that panics leaves the last-error code as it was, and
\* the handle's state as it was unless it is buffer_variable, eoln,
\* read_onearg or read_ln finding the buffer UnknownState at the end of the
\* source: that call has refilled first, so it leaves the buffer Eof and the
\* source read to its end.
C16_PanicKeepsStateButRefill ==
    [][last'.panic =>
          /\ error_state' = error_state
          /\ IF LazyFailure
             THEN /\ file_state' \in refill(file_state)
                  /\ Buffer(file_state').st = "Eof"
                  /\ file_state'.read_target = Len(disk)
             ELSE file_state' = file_state]_vars

\* buffer_variable panicked on a freshly opened 2-byte source of 3-byte
\* units, leaving the buffer Eof and the 2 bytes read.
C16_Witness ==
    /\ last.op = "buffer_variable"
    /\ last.panic
    /\ before = FreshBlockRead
    /\ size_of_t = 3
    /\ Len(disk) = 2
    /\ file_state = BlockInspectionMode(BlockEof, 2)

\* C17: break on a Writing handle returns and leaves the staged unit (and
\* the rest of the state, and the sink's content) as it was, so a put that
\* follows a break issued with a unit staged writes that unit's bytes.
C17_BreakKeepsStaged ==
    [][/\ (IsGen /\ last'.op = "break")
             => ~last'.panic /\ file_state' = file_state /\ disk' = disk
       /\ (/\ IsGen /\ last.op = "break" /\ ~last.panic
           /\ before.mode = "GenerationMode" /\ before.write_buffer # None
           /\ last'.op = "put")
             => /\ ~last'.panic
                /\ disk' = disk \o convert_unit_to_blob(before.write_buffer[1])]_vars

\* The state the loop of eoln, buffer_variable and eof sees on a Line-Reading
\* handle: the line refill loads when the buffer is UnknownState.
SettledLine == CHOOSE f \in Settled(file_state) : TRUE

\* The number of get calls read_ln makes from fs, a Line-Reading state whose
\* buffer is not Eof: one per unit before the terminator, and the last one.
RECURSIVE ReadLnGets(_)
ReadLnGets(fs) ==
    LET e == CHOOSE r \in eoln(fs) : TRUE
    IN  IF e.val = Some(TRUE) THEN 1
        ELSE 1 + ReadLnGets((CHOOSE g \in get(e.fs) : TRUE).fs)

\* C18: read_ln on a Line-Reading handle on which eof is false returns
\* without a panic, after as many advances as the current line has units
\* from the lookahead on; it leaves the buffer Eof when that line had
\* line_no_more set and UnknownState (initial_line false) otherwise, and
\* reads nothing beyond that line.
C18_ReadLn ==
    [][(IsLine /\ last'.op = "read_ln" /\ EofReturns(FALSE)) =>
          LET lb == SettledLine.read_line_buffer
          IN  /\ ~last'.panic
              /\ lb.st = "AfterReadLine"
              /\ ReadLnGets(file_state) = Len(lb.line_buffer) - lb.line_position
              /\ file_state' =
                    [SettledLine EXCEPT !.read_line_buffer =
                        IF lb.line_no_more THEN LineEof
                        ELSE LineUnknownState(FALSE)]]_vars

\* read_ln called with the lookahead on the second unit of "aa\n", the first
\* line of "aa\na".
C18_Witness ==
    /\ IsLine
    /\ last.op = "read_ln"
    /\ ~last.panic
    /\ disk = <<CH, CH, LF, CH>>
    /\ before.mode = "LineInspectionMode"
    /\ before.read_line_buffer =
          AfterReadLine(<<TextUnit(CH), TextUnit(CH), eoln_unit>>, 1, FALSE)
    /\ LineBuf = LineUnknownState(FALSE)
    /\ file_state.read_target = 3

Unknown == IsReading(file_state) /\ Buffer(file_state).st = "UnknownState"

\* The unit at the source's offset rt: the first unit of the line, or of the
\* block, that a refill at rt loads.
FirstUnitAt(rt) ==
    IF is_text
    THEN LET units == NormUnits(SubSeq(disk, rt + 1, rt + ReadLineLen(rt)))
         IN  IF units = <<>> THEN eoln_unit ELSE units[1]
    ELSE convert_blob_to_unit(SubSeq(disk, rt + 1, rt + size_of_t))

\* Where the lookahead of a loaded reading state is: in line mode, the units
\* of the loaded line before it; in block mode, the units of the source
\* before it.
LookaheadIndex(fs) ==
    IF fs.mode = "LineInspectionMode"
    THEN fs.read_line_buffer.line_position
    ELSE (fs.read_target - (fs.read_block_buffer.bytes_avail_length
                               - fs.read_block_buffer.bytes_position))
             \div size_of_t

\* The lookahead of a reading state is on the first unit its buffer holds.
AtFirstUnit(fs) ==
    IF fs.mode = "LineInspectionMode"
    THEN fs.read_line_buffer.line_position = 0
    ELSE fs.read_block_buffer.bytes_position = 0
            /\ fs.read_block_buffer.bytes_buffer = None

\* C19: get on a reading handle whose buffer is UnknownState does what refill
\* does and nothing more: it never panics; it leaves the buffer Eof at the
\* end of the source, and otherwise loaded with the lookahead on the first
\* unit of the line or block just read, which is the unit the next
\* buffer_variable returns.  An eof placed before that get loads the buffer
\* itself, so the get then moves past the first unit: the lookahead is one
\* unit further than the get alone leaves it, or the buffer is left.
C19_GetOnUnknownOnlyRefills ==
    [][(Unknown /\ last'.op = "get") =>
          /\ ~last'.panic
          /\ file_state' \in refill(file_state)
          /\ Buffer(file_state').st # "Eof" =>
                /\ AtFirstUnit(file_state')
                /\ \A r \in buffer_variable(file_state') :
                      ~r.panic
                         /\ r.val = Some(FirstUnitAt(file_state.read_target))
          /\ \A e \in eof(file_state) :
                e.val = Some(FALSE) =>
                    \A g \in get(e.fs) :
                        /\ ~g.panic
                        /\ Buffer(g.fs).st \in {"UnknownState", "Eof"}
                              \/ LookaheadIndex(g.fs)
                                    = LookaheadIndex(file_state') + 1]_vars

\* A get on "a\naa" that found the buffer UnknownState after the first line:
\* it loaded "aa" and left the lookahead on its first unit.
C19_Witness ==
    /\ IsLine
    /\ ~file_state.read_flag_extra_eoln_line
    /\ last.op = "get"
    /\ disk = <<CH, LF, CH, CH>>
    /\ before.mode = "LineInspectionMode"
    /\ before.read_line_buffer = LineUnknownState(FALSE)
    /\ LineBuf = AfterReadLine(<<TextUnit(CH), TextUnit(CH), eoln_unit>>, 0, TRUE)

BlockLoadedIn(fs) ==
    fs.mode = "BlockInspectionMode" /\ fs.read_block_buffer.st = "AfterReadBlock"

\* C20: whenever the block buffer is AfterReadBlock between calls,
\* bytes_position + size_of_t <= bytes_avail_length <= the window's length,
\* and a cached unit, when present, is the decoding of the window bytes
\* [bytes_position, bytes_position + size_of_t); a get or read_onearg that
\* loads the buffer, moves bytes_position or reads from the source leaves no
\* cached unit.
C20_BlockBufferInvariant ==
    [][/\ BlockLoadedIn(file_state') =>
             LET bb == file_state'.read_block_buffer
             IN  /\ bb.bytes_position >= 0
                 /\ bb.bytes_position + size_of_t <= bb.bytes_avail_length
                 /\ bb.bytes_avail_length <= bb.bytes_block_buffer.len
                 /\ bb.bytes_buffer # None =>
                       bb.bytes_buffer = Some(convert_blob_to_unit(UnitBytes(bb)))
       /\ (/\ BlockLoadedIn(file_state')
           /\ last'.op \in {"get", "read_onearg"}
           /\ \/ ~Loaded
              \/ file_state'.read_block_buffer.bytes_position
                    # BlockBuf.bytes_position
              \/ file_state'.read_target # file_state.read_target)
             => file_state'.read_block_buffer.bytes_buffer = None]_vars

\* 2-byte units from a 5-byte source: the second unit peeked and cached, one
\* byte of a partial unit behind it.
C20_Witness ==
    /\ Loaded
    /\ size_of_t = 2
    /\ disk = Pattern(5)
    /\ BlockBuf.bytes_avail_length = 5
    /\ BlockBuf.bytes_position = 2
    /\ BlockBuf.bytes_buffer = Some(UnitAt(2))

NonInteractiveTextRead ==
    is_text /\ IsLine /\ read_pure /\ ~file_state.read_flag_extra_eoln_line

C21_Expected == NormUnits(disk) \o <<eoln_unit>>

\* C21: a non-empty text read with read_onearg on a non-interactive handle,
\* whether or not it ends with a terminator: the units returned are the
\* text's normalized units and then exactly one synthesized terminator, and
\* eof is true exactly when all of them have been returned.  When the text
\* ends with a terminator and all its own units have been returned, eof is
\* still false and the line eof, eoln and buffer_variable find is the single
\* synthesized terminator, with line_no_more set and nothing read.
C21_ExtraTerminator ==
    (NonInteractiveTextRead /\ Len(disk) > 0) =>
        /\ IsPrefix(returned, C21_Expected)
        /\ EofReturns(returned = C21_Expected)
        /\ (disk[Len(disk)] = LF /\ returned = NormUnits(disk)) =>
              /\ LineBuf.st # "Eof"
              /\ file_state.read_target = Len(disk)
              /\ SettledLine.read_line_buffer
                    = AfterReadLine(<<eoln_unit>>, 0, TRUE)
              /\ SettledLine.read_target = Len(disk)
              /\ EolnReturns(TRUE)

\* "a\na\n" read to its end: a, LF, a, LF and the synthesized LF.
C21_Witness ==
    /\ NonInteractiveTextRead
    /\ disk = <<CH, LF, CH, LF>>
    /\ last.op = "read_onearg"
    /\ LineBuf.st = "Eof"
    /\ returned = <<TextUnit(CH), eoln_unit, TextUnit(CH), eoln_unit, eoln_unit>>

====
